---- MODULE Spec2Model ----
(***************************************************************************)
(* A model of RSA_implementation.py: the extended Euclidean algorithm,     *)
(* the modular inverse, trial-division primality, the n-th prime search,   *)
(* RSA key generation and the encrypt/decrypt transform, and main().       *)
(*                                                                         *)
(* Python integers are unbounded; every value the model computes stays     *)
(* below 2^31, so the arithmetic below is exact.                           *)
(***************************************************************************)
EXTENDS Integers, Sequences, FiniteSets, TLC

VARIABLES
    a, b, st, gpc,          \* extended_gcd: arguments, loop locals, position
    inv,                    \* outcome of modular_inverse(a, b)
    arg, isp,               \* is_prime: argument and outcome
    gn, gs, ppc,            \* get_prime_number: argument, loop locals, position
    p, q, n, e, d,          \* key material
    message, cipher, decrypted, mpc   \* main: input, outputs, position

vars == <<a, b, st, gpc, inv, arg, isp, gn, gs, ppc,
          p, q, n, e, d, message, cipher, decrypted, mpc>>

gcdVars   == <<a, b, st, gpc, inv>>
primeVars == <<arg, isp, gn, gs, ppc>>
keyVars   == <<p, q, n, e, d, message, cipher, decrypted, mpc>>

(***************************************************************************)
(* Bounds of the model.                                                    *)
(***************************************************************************)
MaxAbs == 9         \* extended_gcd / modular_inverse arguments in -MaxAbs..MaxAbs
MaxArg == 1000      \* is_prime arguments in 0..MaxArg
MaxIndex == 30      \* get_prime_number arguments in 1..MaxIndex
MaxPrime == 13      \* choose_e / round trip as functions: primes p, q <= MaxPrime
MaxWrap == 1        \* main: entered messages below (MaxWrap + 1) * n

(***************************************************************************)
(* Outcomes of a Python call: a returned value, a returned None, or a      *)
(* raised exception.                                                       *)
(***************************************************************************)
Ret(v)     == [kind |-> "return", val |-> v, exc |-> ""]
RetNone    == [kind |-> "None",   val |-> 0, exc |-> ""]
Raise(x)   == [kind |-> "raise",  val |-> 0, exc |-> x]
NotCalled  == [kind |-> "idle",   val |-> 0, exc |-> ""]

(***************************************************************************)
(* Python's // and % (floor division; the remainder has the sign of the    *)
(* divisor).  The divisor is never 0 where these are used.                 *)
(***************************************************************************)
PyFloorDiv(x, y) == IF y > 0 THEN x \div y ELSE (0 - x) \div (0 - y)
PyMod(x, y)      == x - y * PyFloorDiv(x, y)

Abs(x) == IF x < 0 THEN 0 - x ELSE x

(***************************************************************************)
(* extended_gcd(a, b)                                                      *)
(***************************************************************************)
\* x, y = a, b ; px, qx = 1, 0 ; py, qy = 0, 1
EgcdEntry(a0, b0) == [x |-> a0, y |-> b0, px |-> 1, qx |-> 0, py |-> 0, qy |-> 1]

\* The two assert statements at the top of the loop body (L.I. 2 and L.I. 3).
EgcdAsserts(a0, b0, s) ==
    /\ s.x = s.px * a0 + s.qx * b0
    /\ s.y = s.py * a0 + s.qy * b0

EgcdBodyWrongCoefficient(s) ==
    LET quo == PyFloorDiv(s.x, s.y)
        r   == PyMod(s.x, s.y)
    IN  [x  |-> s.y,  y  |-> r,
         px |-> s.py, qx |-> s.qy,
         py |-> s.px - (quo * s.py),
         qy |-> s.qx - (quo * s.py)]

\* One pass of the loop body after the assertions: divmod and the updates.
EgcdBody(s) ==
    LET quo == PyFloorDiv(s.x, s.y)
        r   == PyMod(s.x, s.y)
    IN  [x  |-> s.y,  y  |-> r,
         px |-> s.py, qx |-> s.qy,
         py |-> s.px - (quo * s.py),
         qy |-> s.qx - (quo * s.qy)]

RECURSIVE EgcdLoop(_, _, _)
EgcdLoop(a0, b0, s) ==
    IF s.y # 0
    THEN IF EgcdAsserts(a0, b0, s)
         THEN EgcdLoop(a0, b0, EgcdBody(s))
         ELSE Raise("AssertionError")
    ELSE Ret(<<s.x, s.px, s.qx>>)

extended_gcd(a0, b0) == EgcdLoop(a0, b0, EgcdEntry(a0, b0))

(***************************************************************************)
(* modular_inverse(a, n)                                                   *)
(***************************************************************************)
modular_inverse_takes_q(a0, n0) ==
    LET r1 == extended_gcd(a0, n0)
    IN  IF r1.kind = "raise" THEN r1
        ELSE IF n0 = 0 THEN Raise("ZeroDivisionError")
        ELSE Ret(PyMod(PyMod(r1.val[3], n0) + n0, n0))

modular_inverse(a0, n0) ==
    LET r1 == extended_gcd(a0, n0)      \* coefficient_p = extended_gcd(a, n)[1]
        r2 == extended_gcd(a0, n0)      \* coefficient_q = extended_gcd(a, n)[2]
    IN  IF r1.kind = "raise" THEN r1
        ELSE IF r2.kind = "raise" THEN r2
        ELSE IF n0 = 0 THEN Raise("ZeroDivisionError")
        ELSE Ret(PyMod(PyMod(r1.val[2], n0) + n0, n0))

(***************************************************************************)
(* is_prime(n)                                                             *)
(***************************************************************************)
\* math.ceil(math.sqrt(n)) for n >= 0 (exact for the magnitudes used here).
CeilSqrt(m) == CHOOSE k \in 0..m : k * k >= m /\ (k = 0 \/ (k - 1) * (k - 1) < m)

\* range(start, stop, 2)
OddRange(start, stop) == {i \in start..(stop - 1) : (i - start) % 2 = 0}

is_prime_exclusive_bound(m) ==
    IF m < 2 THEN FALSE
    ELSE IF m = 2 THEN TRUE
    ELSE IF m % 2 = 0 THEN FALSE
    ELSE \A i \in OddRange(3, CeilSqrt(m)) : m % i # 0

is_prime(m) ==
    IF m < 2 THEN FALSE
    ELSE IF m = 2 THEN TRUE
    ELSE IF m % 2 = 0 THEN FALSE
    ELSE \A i \in OddRange(3, CeilSqrt(m) + 1) : m % i # 0

(***************************************************************************)
(* get_prime_number(n)                                                     *)
(***************************************************************************)
\* prime_number = 2 ; count = 1
GpEntry == [prime_number |-> 2, count |-> 1]

GpBodyCountsEveryCandidate(s) ==
    [prime_number |-> s.prime_number + 1, count |-> s.count + 1]

\* prime_number += 1 ; if is_prime(prime_number): count += 1
GpBody(s) ==
    LET cand == s.prime_number + 1
    IN  [prime_number |-> cand,
         count |-> IF is_prime(cand) THEN s.count + 1 ELSE s.count]

\* One iteration of "while count < n", a no-op once the loop has ended.
GpStep(k, s) == IF s.count < k THEN GpBody(s) ELSE s

\* Four and sixteen guarded iterations in a row; they keep the evaluation of
\* the loop below shallow and change nothing in what it computes.
GpStep4(k, s)  == GpStep(k, GpStep(k, GpStep(k, GpStep(k, s))))
GpStep16(k, s) == GpStep4(k, GpStep4(k, GpStep4(k, GpStep4(k, s))))

RECURSIVE GpLoop(_, _)
GpLoop(k, s) == IF s.count < k THEN GpLoop(k, GpStep16(k, s)) ELSE s.prime_number

get_prime_number(k) == GpLoop(k, GpEntry)

(***************************************************************************)
(* generate_key_variables, compute_totient, choose_e, choose_d             *)
(***************************************************************************)
LoIndex == 60       \* random.randint(60, 150)
HiIndex == 150

\* get_prime_number over the indices random.randint can return.
PrimeOfIndex == [i \in LoIndex..HiIndex |-> get_prime_number(i)]

\* The result for the draws i (random_number) and j (random_number_b).
generate_key_variables(i, j) == <<PrimeOfIndex[i], PrimeOfIndex[j]>>

compute_totient(p0, q0) == (p0 - 1) * (q0 - 1)

\* The scan "for i in range(2, my_totient - 1)" from candidate i on; falling
\* out of the loop returns None.
RECURSIVE ChooseEScan(_, _)
ChooseEScan(i, tot) ==
    IF i >= tot - 1 THEN RetNone
    ELSE LET g == extended_gcd(i, tot)
         IN  IF g.kind = "raise" THEN g
             ELSE IF g.val[1] = 1 THEN Ret(i)
             ELSE ChooseEScan(i + 1, tot)

choose_e(p0, q0) == ChooseEScan(2, compute_totient(p0, q0))

\* e0 is the outcome of choose_e.  A None reaches "px * a" in the first
\* assertion of extended_gcd (the totient is never 0 there), a TypeError.
choose_d(e0, p0, q0) ==
    IF e0.kind # "return"
    THEN IF compute_totient(p0, q0) # 0 THEN Raise("TypeError")
         ELSE Raise("ZeroDivisionError")
    ELSE modular_inverse(e0.val, compute_totient(p0, q0))

(***************************************************************************)
(* communication_party.encrypt / decrypt: the three-argument pow.          *)
(***************************************************************************)
\* (x * y) mod m for 0 <= x, y < m < 2^20.  The product is formed in two
\* halves so that every intermediate value stays below 2^31.
MulMod(x, y, m) == (((x * (y \div 1024)) % m) * 1024 + x * (y % 1024)) % m

\* base ** ex mod m by repeated squaring, for ex >= 0 and m > 0.
RECURSIVE PowMod(_, _, _)
PowMod(base, ex, m) ==
    IF ex = 0 THEN 1 % m
    ELSE LET half == PowMod(base, ex \div 2, m)
             sq   == MulMod(half, half, m)
         IN  IF ex % 2 = 1 THEN MulMod(sq, base % m, m) ELSE sq

\* pow(base, ex, m) on integers with ex >= 0 and m >= 0 (the modulus is a
\* product of two primes and the exponents are e >= 2 and 0 <= d < totient).
pow(base, ex, m) ==
    IF m = 0 THEN Raise("ValueError")
    ELSE Ret(PowMod(PyMod(base, m), ex, m))

encrypt(m0, e0, n0) == pow(m0, e0, n0)

decrypt_exponent_off_by_one(c0, d0, n0) == pow(c0, d0 + 1, n0)

decrypt(c0, d0, n0) == pow(c0, d0, n0)

(***************************************************************************)
(* The greatest common divisor and primality by their definitions, used    *)
(* only to state properties.                                               *)
(***************************************************************************)
TrialPrime(m) == m >= 2 /\ \A k \in 2..(m - 1) : m % k # 0
Divides(k, m) == \E c \in 0..Abs(m) : Abs(m) = c * k
MathGcd(x, y) ==
    LET m == IF Abs(x) > Abs(y) THEN Abs(x) ELSE Abs(y)
    IN  CHOOSE g \in 0..m :
            /\ (g = 0) <=> (x = 0 /\ y = 0)
            /\ g # 0 => /\ Divides(g, x) /\ Divides(g, y)
                        /\ \A h \in (g + 1)..m : ~(Divides(h, x) /\ Divides(h, y))

(***************************************************************************)
(* Specification of the number-theory kernel: extended_gcd runs one loop   *)
(* iteration per step on arguments a, b; modular_inverse(a, b) is applied  *)
(* to the same arguments.                                                  *)
(***************************************************************************)
IdlePrime ==
    /\ arg = 0 /\ isp = NotCalled
    /\ gn = 0 /\ gs = [prime_number |-> 0, count |-> 0] /\ ppc = "idle"

IdleKeys ==
    /\ p = 0 /\ q = 0 /\ n = 0 /\ e = NotCalled /\ d = NotCalled
    /\ message = 0 /\ cipher = NotCalled /\ decrypted = NotCalled
    /\ mpc = "idle"

IdleGcd ==
    /\ a = 0 /\ b = 0 /\ st = EgcdEntry(0, 0) /\ gpc = "idle" /\ inv = NotCalled

InitGcd ==
    /\ a \in (0 - MaxAbs)..MaxAbs
    /\ b \in (0 - MaxAbs)..MaxAbs
    /\ st = EgcdEntry(a, b)
    /\ gpc = "loop"
    /\ inv = NotCalled
    /\ IdlePrime /\ IdleKeys

\* while y != 0: assert ...; assert ...; divmod; updates
EgcdIterate ==
    /\ gpc = "loop"
    /\ st.y # 0
    /\ IF EgcdAsserts(a, b, st)
       THEN st' = EgcdBody(st) /\ gpc' = "loop"
       ELSE st' = st /\ gpc' = "AssertionError"
    /\ UNCHANGED <<a, b, inv>>
    /\ UNCHANGED primeVars /\ UNCHANGED keyVars

\* return x, px, qx
EgcdReturn ==
    /\ gpc = "loop"
    /\ st.y = 0
    /\ gpc' = "returned"
    /\ UNCHANGED <<a, b, st, inv>>
    /\ UNCHANGED primeVars /\ UNCHANGED keyVars

CallModularInverse ==
    /\ gpc # "idle"
    /\ inv = NotCalled
    /\ inv' = modular_inverse(a, b)
    /\ UNCHANGED <<a, b, st, gpc>>
    /\ UNCHANGED primeVars /\ UNCHANGED keyVars

NextGcd == EgcdIterate \/ EgcdReturn \/ CallModularInverse

SpecGcd == InitGcd /\ [][NextGcd]_vars

(***************************************************************************)
(* Specification of the prime routines: is_prime is applied to arg;        *)
(* get_prime_number(gn) runs one loop iteration per step.                  *)
(***************************************************************************)
InitPrime ==
    /\ \/ /\ arg \in 0..MaxArg /\ isp = NotCalled
          /\ gn = 0 /\ gs = [prime_number |-> 0, count |-> 0] /\ ppc = "idle"
       \/ /\ arg = 0 /\ isp = NotCalled
          /\ gn \in 1..MaxIndex /\ gs = GpEntry /\ ppc = "loop"
    /\ IdleGcd /\ IdleKeys

CallIsPrime ==
    /\ ppc = "idle"
    /\ isp = NotCalled
    /\ isp' = Ret(is_prime(arg))
    /\ UNCHANGED <<arg, gn, gs, ppc>>
    /\ UNCHANGED gcdVars /\ UNCHANGED keyVars

\* while count < n: prime_number += 1; if is_prime(prime_number): count += 1
GpIterate ==
    /\ ppc = "loop"
    /\ gs.count < gn
    /\ gs' = GpBody(gs)
    /\ UNCHANGED <<arg, isp, gn, ppc>>
    /\ UNCHANGED gcdVars /\ UNCHANGED keyVars

\* return prime_number
GpReturn ==
    /\ ppc = "loop"
    /\ ~(gs.count < gn)
    /\ ppc' = "returned"
    /\ UNCHANGED <<arg, isp, gn, gs>>
    /\ UNCHANGED gcdVars /\ UNCHANGED keyVars

NextPrime == CallIsPrime \/ GpIterate \/ GpReturn

SpecPrime == InitPrime /\ [][NextPrime]_vars

\* The loop of get_prime_number is sequential code: an iteration that can
\* run does run, and so does the return.
FairSpecPrime == SpecPrime /\ WF_vars(GpIterate) /\ WF_vars(GpReturn)

(***************************************************************************)
(* main(), one statement group per step.  The key pair that               *)
(* communication_party() draws for itself is never read and is not kept.   *)
(***************************************************************************)
InitMain ==
    /\ p = 0 /\ q = 0 /\ n = 0 /\ e = NotCalled /\ d = NotCalled
    /\ message = 0 /\ cipher = NotCalled /\ decrypted = NotCalled
    /\ mpc = "start"
    /\ IdleGcd /\ IdlePrime

\* p, q = generate_key_variables() ; n = p * q
MainGenerateKeys ==
    /\ mpc = "start"
    /\ \E i \in LoIndex..HiIndex, j \in LoIndex..HiIndex :
          LET pq == generate_key_variables(i, j)
          IN  /\ p' = pq[1] /\ q' = pq[2]
              /\ n' = pq[1] * pq[2]
    /\ mpc' = "choose_e"
    /\ UNCHANGED <<e, d, message, cipher, decrypted>>
    /\ UNCHANGED gcdVars /\ UNCHANGED primeVars

\* e = choose_e(p, q)
MainChooseE ==
    /\ mpc = "choose_e"
    /\ e' = choose_e(p, q)
    /\ mpc' = IF e'.kind = "raise" THEN "error" ELSE "choose_d"
    /\ UNCHANGED <<p, q, n, d, message, cipher, decrypted>>
    /\ UNCHANGED gcdVars /\ UNCHANGED primeVars

\* d = choose_d(e, p, q)
MainChooseD ==
    /\ mpc = "choose_d"
    /\ d' = choose_d(e, p, q)
    /\ mpc' = IF d'.kind = "raise" THEN "error" ELSE "input"
    /\ UNCHANGED <<p, q, n, e, message, cipher, decrypted>>
    /\ UNCHANGED gcdVars /\ UNCHANGED primeVars

\* The messages entered in the model of main: below n and at or above n,
\* with residues 0, 1, a multiple of a prime factor, and n - 1.
MessageInputs == {w * n + r : w \in 0..MaxWrap, r \in {0, 1, p, n - 1}}

\* message = int(input("Enter a message: ")) -- no check against n
MainReadMessage ==
    /\ mpc = "input"
    /\ message' \in MessageInputs
    /\ mpc' = "encrypt"
    /\ UNCHANGED <<p, q, n, e, d, cipher, decrypted>>
    /\ UNCHANGED gcdVars /\ UNCHANGED primeVars

\* cipher = party.encrypt(message, e, n)
MainEncrypt ==
    /\ mpc = "encrypt"
    /\ cipher' = encrypt(message, e.val, n)
    /\ mpc' = IF cipher'.kind = "raise" THEN "error" ELSE "decrypt"
    /\ UNCHANGED <<p, q, n, e, d, message, decrypted>>
    /\ UNCHANGED gcdVars /\ UNCHANGED primeVars

\* decrypted = party.decrypt(cipher, d, n) ; print("The message is:", decrypted)
MainDecrypt ==
    /\ mpc = "decrypt"
    /\ decrypted' = decrypt(cipher.val, d.val, n)
    /\ mpc' = IF decrypted'.kind = "raise" THEN "error" ELSE "done"
    /\ UNCHANGED <<p, q, n, e, d, message, cipher>>
    /\ UNCHANGED gcdVars /\ UNCHANGED primeVars

NextMain ==
    \/ MainGenerateKeys \/ MainChooseE \/ MainChooseD
    \/ MainReadMessage \/ MainEncrypt \/ MainDecrypt

SpecMain == InitMain /\ [][NextMain]_vars

(***************************************************************************)
(* choose_e, choose_d, encrypt and decrypt as functions of their           *)
(* arguments: the same steps from any two distinct primes up to MaxPrime   *)
(* and any message in [0, n).                                              *)
(***************************************************************************)
InitKeys ==
    /\ p \in {k \in 2..MaxPrime : TrialPrime(k)}
    /\ q \in {k \in 2..MaxPrime : TrialPrime(k)}
    /\ p # q
    /\ n = p * q
    /\ e = NotCalled /\ d = NotCalled
    /\ message = 0 /\ cipher = NotCalled /\ decrypted = NotCalled
    /\ mpc = "choose_e"
    /\ IdleGcd /\ IdlePrime

GiveMessage ==
    /\ mpc = "input"
    /\ message' \in 0..(n - 1)
    /\ mpc' = "encrypt"
    /\ UNCHANGED <<p, q, n, e, d, cipher, decrypted>>
    /\ UNCHANGED gcdVars /\ UNCHANGED primeVars

NextKeys == MainChooseE \/ MainChooseD \/ GiveMessage \/ MainEncrypt \/ MainDecrypt

SpecKeys == InitKeys /\ [][NextKeys]_vars

(***************************************************************************)
(* Claims about extended_gcd and modular_inverse (checked under SpecGcd).  *)
(***************************************************************************)

\* C10: in extended_gcd(a, b), for all integers a and b, at the start of
\* every loop iteration x == px*a + qx*b and y == py*a + qy*b, so the two
\* assertions of the loop never fail.
C10_LoopInvariantHolds ==
    /\ (gpc = "loop" /\ st.y # 0) => EgcdAsserts(a, b, st)
    /\ gpc # "AssertionError"
    /\ inv.exc # "AssertionError"

\* A later iteration (the coefficients have been updated at least twice) on
\* two negative arguments.
C10_Witness ==
    /\ gpc = "loop" /\ st.y # 0
    /\ a < 0 /\ b < 0
    /\ st.px # 1 /\ st.px # 0 /\ st.qy # 1 /\ st.qy # 0

\* C2: for all integers a, b not both 0, extended_gcd(a, b) returns
\* (g, x, y) with g == x*a + y*b and g == gcd(|a|, |b|), the non-negative
\* greatest common divisor.
C2_BezoutAndNonNegativeGcd ==
    (gpc = "returned" /\ ~(a = 0 /\ b = 0)) =>
        /\ st.x = st.px * a + st.qx * b
        /\ st.x = MathGcd(a, b)

\* C3: for all integers a and n with n > 1 and gcd(a, n) = 1,
\* modular_inverse(a, n) returns d with 0 <= d < n and (a * d) mod n == 1.
C3_InverseInRange ==
    (inv # NotCalled /\ b > 1 /\ MathGcd(a, b) = 1) =>
        /\ inv.kind = "return"
        /\ 0 <= inv.val /\ inv.val < b
        /\ PyMod(a * inv.val, b) = 1

\* modular_inverse has returned for coprime arguments whose Bezout
\* coefficient is negative, so the normalisation into [0, n) had to act.
C3_Witness ==
    /\ inv.kind = "return" /\ b > 1 /\ MathGcd(a, b) = 1
    /\ extended_gcd(a, b).val[2] < 0
    /\ a < 0

\* C4: modular_inverse(a, n) called with gcd(a, n) != 1 ends in an error
\* outcome; it never returns a number silently.
C4_NonCoprimeFails ==
    (inv # NotCalled /\ MathGcd(a, b) # 1) => inv.kind = "raise"

(***************************************************************************)
(* Claims about is_prime and get_prime_number (SpecPrime, FairSpecPrime).  *)
(***************************************************************************)

\* C7: for every integer n in [0, 1000], is_prime(n) is True exactly when
\* n >= 2 and no k with 2 <= k < n divides n; it is False for all n < 2,
\* True for n = 2 and False for every even n > 2.
C7_IsPrimeMatchesTrialDivision ==
    isp # NotCalled =>
        /\ isp.kind = "return"
        /\ isp.val = TrialPrime(arg)
        /\ arg < 2 => isp.val = FALSE
        /\ arg = 2 => isp.val = TRUE
        /\ (arg > 2 /\ arg % 2 = 0) => isp.val = FALSE

\* is_prime has answered False for the square of an odd prime, where the
\* only divisor tried that divides is the last one, ceil(sqrt(n)).
C7_Witness ==
    /\ isp = Ret(FALSE)
    /\ arg > 500 /\ arg % 2 = 1
    /\ CeilSqrt(arg) * CeilSqrt(arg) = arg
    /\ TrialPrime(CeilSqrt(arg))

\* C8: for every n >= 1, get_prime_number(n) terminates and returns the
\* n-th prime counted from 1 (2, 3, 5, 7, 11 for n = 1..5): the returned
\* value is prime and exactly n - 1 primes are smaller than it.
C8_ReturnsNthPrime ==
    /\ [](ppc = "returned" =>
            /\ TrialPrime(gs.prime_number)
            /\ Cardinality({k \in 2..(gs.prime_number - 1) : TrialPrime(k)}) = gn - 1
            /\ gn <= 5 => gs.prime_number = <<2, 3, 5, 7, 11>>[gn])
    /\ (ppc = "loop" ~> ppc = "returned")

\* get_prime_number has returned past the five documented values, after
\* the loop skipped composite candidates.
C8_Witness ==
    /\ ppc = "returned" /\ gn > 5
    /\ gs.count = gn
    /\ gs.prime_number > gn + 1

(***************************************************************************)
(* Claims about key generation and main (SpecMain).                        *)
(***************************************************************************)

\* C5: for every pair of random index draws in [60, 150],
\* generate_key_variables returns (p, q) where p and q are both prime, both
\* greater than 1, and p != q.
C5_TwoDistinctPrimes ==
    mpc = "choose_e" =>
        /\ TrialPrime(p) /\ TrialPrime(q)
        /\ p > 1 /\ q > 1
        /\ p # q

\* C9: main performs no range check on the message: for a valid key
\* (distinct primes p, q) and any entered message m >= n, the run completes
\* without error and the value printed as 'The message is:' equals m mod n,
\* not m.
C9_OutOfRangeMessageWraps ==
    (mpc # "start" /\ p # q) =>
        /\ mpc # "error"
        /\ (mpc \in {"encrypt", "decrypt", "done"} /\ message >= n) =>
              /\ cipher.kind # "raise" /\ decrypted.kind # "raise"
              /\ mpc = "done" =>
                    /\ decrypted = Ret(message % n)
                    /\ decrypted.val # message

\* main has finished on a message at or above n that shares a prime factor
\* with n, and printed its residue.
C9_Witness ==
    /\ mpc = "done" /\ p # q
    /\ message >= n
    /\ message % n = p
    /\ decrypted = Ret(p)
    /\ cipher.val # p

(***************************************************************************)
(* Claims about choose_e and the round trip as functions (SpecKeys).       *)
(***************************************************************************)

\* C1: for every pair of primes p != q with n = p*q, e = choose_e(p, q),
\* d = choose_d(e, p, q), and every message m with 0 <= m < n,
\* decrypt(encrypt(m, e, n), d, n) == m.
C1_RoundTrip ==
    /\ mpc # "error"
    /\ mpc = "done" => decrypted = Ret(message)

\* C6: for every pair of distinct primes p, q with phi = (p-1)*(q-1),
\* choose_e(p, q) returns the smallest integer e >= 2 coprime to phi, and
\* 1 < e < phi and gcd(e, phi) = 1.
C6_SmallestCoprimeExponent ==
    e # NotCalled =>
        /\ e.kind = "return"
        /\ e.val >= 2
        /\ MathGcd(e.val, compute_totient(p, q)) = 1
        /\ \A k \in 2..(e.val - 1) : MathGcd(k, compute_totient(p, q)) # 1
        /\ 1 < e.val /\ e.val < compute_totient(p, q)

====
